---- MODULE Spec2Model ----
(***************************************************************************)
(* A model of github-runner-scaler.go: the URL builder, the aggregation of *)
(* queued workflow runs over the repositories of an organization, and the  *)
(* mutex-guarded TTL cache in front of it (QueuedJobsHandler).             *)
(***************************************************************************)
EXTENDS Integers, Sequences, FiniteSets, TLC

(***************************************************************************)
(* Bounds of the model.                                                    *)
(***************************************************************************)
\* number of clients; each sends one query after the other, so at most
\* NumCallers runs of QueuedJobsHandler are in progress at once
NumCallers == 2
\* the clock runs from 0 to MaxTime (seconds)
MaxTime == 2
\* GITHUB_RUNNER_SCALER_CACHE_TIMEOUT ranges over -1..MaxTimeout (seconds)
MaxTimeout == 2
\* the upstream lists at most MaxRepos repositories
MaxRepos == 2

\* the upstream fails at most MaxFailures crawls between two stores
MaxFailures == 1

Callers == 1..NumCallers
Timeouts == (-1)..MaxTimeout

\* what GetWorkflowRuns may decode from a 200 response: the status of each run
RunLists ==
    { <<"in_progress">>,
      <<"queued", "completed">>,
      <<"queued", "queued">> }

\* lines 182 and 188: the default of GITHUB_RUNNER_SCALER_CACHE_TIMEOUT
DefaultTimeout == 60

\* the zero value of time.Time (lastUpdateTime before the first store)
ZeroTime == -1

VARIABLES
    now,              \* the clock (time.Now, seconds)
    cacheLock,        \* TRUE while the sync.Mutex is locked
    cachedJobs,       \* package variable cachedJobs
    lastUpdateTime,   \* package variable lastUpdateTime
    cacheTimeout,     \* package variable cacheTimeout, set once by main
    pc,               \* per caller: where its QueuedJobsHandler stands
    repos,            \* per caller: CountQueuedJobs' local repos
    idx,              \* per caller: position of the range loop over repos
    totalQueuedJobs,  \* per caller: CountQueuedJobs' local totalQueuedJobs
    queuedJobs,       \* per caller: the handler's local queuedJobs
    err,              \* per caller: the handler's local err (TRUE: non-nil)
    resp,             \* the latest HTTP response a handler wrote, and to whom
    logged,           \* whether that handler logged "Returning cached result"
    calls,            \* per caller: what the upstream answered, in call order
    invoked,          \* CountQueuedJobs calls since the cache was last stored
    failed,           \* of those, the ones that returned an error
    lastAggregate,    \* number of queued runs the upstream reported to the
                      \* latest crawl that ended without error
    blocked,          \* the callers that were waiting for the mutex when the
                      \* latest result of CountQueuedJobs was handled, each
                      \* until its next query
    acquiredFresh,    \* between Lock and the check of line 149: whether a
                      \* count less than cacheTimeout old was stored when
                      \* the mutex was acquired
    cancelled,        \* the callers whose client went away during the crawl
                      \* of their latest query
    githubURL,        \* os.Getenv("GITHUB_URL"), a string of characters
    endpoint,         \* the endpoint of the latest upstream request
    url               \* the URL of the latest upstream request

vars == << now, cacheLock, cachedJobs, lastUpdateTime, cacheTimeout, pc, repos,
           idx, totalQueuedJobs, queuedJobs, err, resp, logged, calls, invoked,
           failed, lastAggregate, blocked, acquiredFresh, cancelled, githubURL,
           endpoint, url >>

urlVars == << githubURL, endpoint, url >>
cacheVars == << cachedJobs, lastUpdateTime >>
obsVars == << blocked, acquiredFresh, cancelled >>
localVars == << repos, idx, totalQueuedJobs, queuedJobs, err >>

(***************************************************************************)
(* Strings are sequences of characters.                                    *)
(***************************************************************************)
\* "https://"
Https == <<"h", "t", "t", "p", "s", ":", "/", "/">>
\* "http://"
Http == <<"h", "t", "t", "p", ":", "/", "/">>
\* "api.github.com"
ApiGithubCom == <<"a", "p", "i", ".", "g", "i", "t", "h", "u", "b", ".", "c", "o", "m">>
\* "ghe.example.com"
GheExampleCom == <<"g", "h", "e", ".", "e", "x", "a", "m", "p", "l", "e", ".", "c", "o", "m">>
\* "/"
Slash == <<"/">>
\* "/api/v3"
ApiV3 == <<"/", "a", "p", "i", "/", "v", "3">>
\* "acme"
Acme == <<"a", "c", "m", "e">>
\* "kube-tools"
KubeTools == <<"k", "u", "b", "e", "-", "t", "o", "o", "l", "s">>
\* "x"
X == <<"x">>
\* "acme/app"
AcmeApp == <<"a", "c", "m", "e", "/", "a", "p", "p">>
\* "acme/lib"
AcmeLib == <<"a", "c", "m", "e", "/", "l", "i", "b">>

\* "kube-tools/ci"
KubeToolsCi == KubeTools \o <<"/", "c", "i">>
\* "x/y"
XY == <<"x", "/", "y">>

\* line 142: the default of GITHUB_URL, "https://api.github.com"
DefaultGithubURL == Https \o ApiGithubCom

\* the values of GITHUB_URL the model draws ("" is the unset variable)
BaseURLs ==
    { <<>>,
      Slash,
      Https \o ApiGithubCom,
      Https \o ApiGithubCom \o Slash,
      Https \o ApiGithubCom \o Slash \o Slash,
      Https \o ApiGithubCom \o <<".", "e", "v", "i", "l">>,
      Https \o <<"a", "p", "i", ".", "g", "i", "t", "h", "u", "b", ".", "c", "o">>,
      Http \o ApiGithubCom,
      Https \o GheExampleCom,
      Https \o GheExampleCom \o Slash,
      Https \o GheExampleCom \o Slash \o Slash,
      Https \o GheExampleCom \o ApiV3,
      Https \o GheExampleCom \o ApiV3 \o Slash,
      Https \o GheExampleCom \o <<":", "8", "4", "4", "3">>,
      Https \o <<"g", "i", "t", "h", "u", "b", ".", "c", "o", "m">> }

\* the values of GITHUB_ORGANIZATION and of Repo.FullName the model draws
Orgs == { Acme, KubeTools, X }
FullNames == { AcmeApp, AcmeLib, KubeToolsCi, XY }

\* strings.HasPrefix
HasPrefix(s, prefix) ==
    /\ Len(s) >= Len(prefix)
    /\ SubSeq(s, 1, Len(prefix)) = prefix

\* strings.HasSuffix
HasSuffix(s, suffix) ==
    /\ Len(s) >= Len(suffix)
    /\ SubSeq(s, Len(s) - Len(suffix) + 1, Len(s)) = suffix

\* strings.TrimSuffix: s without the suffix, once, when s ends with it
TrimSuffix(s, suffix) ==
    IF HasSuffix(s, suffix) THEN SubSeq(s, 1, Len(s) - Len(suffix)) ELSE s

\* the public origin recognised by equality instead of by prefix
buildAPIURLExact(baseURL, ep) ==
    IF baseURL = Https \o ApiGithubCom
    THEN TrimSuffix(baseURL, Slash) \o Slash \o ep
    ELSE TrimSuffix(baseURL, Slash) \o ApiV3 \o Slash \o ep

\* lines 33-42
buildAPIURL(baseURL, ep) ==
    IF HasPrefix(baseURL, Https \o ApiGithubCom)
    THEN TrimSuffix(baseURL, Slash) \o Slash \o ep
    ELSE TrimSuffix(baseURL, Slash) \o ApiV3 \o Slash \o ep

\* line 46: fmt.Sprintf("orgs/%s/repos", org)
ReposEndpoint(org) == <<"o", "r", "g", "s">> \o Slash \o org \o Slash \o <<"r", "e", "p", "o", "s">>

\* line 78: fmt.Sprintf("repos/%s/actions/runs", repo)
RunsEndpoint(repo) ==
    <<"r", "e", "p", "o", "s">> \o Slash \o repo \o Slash
        \o <<"a", "c", "t", "i", "o", "n", "s">> \o Slash \o <<"r", "u", "n", "s">>

\* lines 137-143: the handler's githubURL
HandlerGithubURL == IF githubURL = <<>> THEN DefaultGithubURL ELSE githubURL

(***************************************************************************)
(* Time.                                                                   *)
(***************************************************************************)
\* time.Since of the zero time saturates at the largest Duration, which no
\* cacheTimeout reaches
MaxDuration == MaxTime + MaxTimeout + 1

\* the zero lastUpdateTime taken for a time just before the start
SinceUnsaturated(t) == now - t

Since(t) == IF t = ZeroTime THEN MaxDuration ELSE now - t

\* line 149 with <= for <
FreshInclusive == Since(lastUpdateTime) <= cacheTimeout

\* line 149 with cacheTimeout left at its zero value (main's line 191 lost)
FreshUnconfigured == Since(lastUpdateTime) < 0

\* line 149: time.Since(lastUpdateTime) < cacheTimeout
Fresh == Since(lastUpdateTime) < cacheTimeout

(***************************************************************************)
(* HTTP responses of the handler.                                          *)
(***************************************************************************)
NoResponse == [status |-> 0]
OK(c, n) == [to |-> c, status |-> 200, queued_jobs |-> n]
InternalServerError(c) == [to |-> c, status |-> 500]

(***************************************************************************)
(* Upstream answers, as recorded in calls.                                 *)
(***************************************************************************)
ReposError == [op |-> "GetRepos", err |-> TRUE]
ReposOK(rs) == [op |-> "GetRepos", err |-> FALSE, repos |-> rs]
RunsError(r) == [op |-> "GetWorkflowRuns", repo |-> r, err |-> TRUE]
RunsOK(r, runs) == [op |-> "GetWorkflowRuns", repo |-> r, err |-> FALSE, runs |-> runs]

\* the repositories an organization may list: FullName 1, 2, .. n
RepoLists == { [k \in 1..n |-> k] : n \in 0..MaxRepos }

\* every run counted, whatever its status
CountAllRuns(runs) == Len(runs)

(***************************************************************************)
(* CountQueuedJobs, lines 125-129: the inner loop over one repository's    *)
(* workflow runs.                                                          *)
(***************************************************************************)
RECURSIVE CountQueued(_)
CountQueued(runs) ==
    IF runs = <<>> THEN 0
    ELSE (IF Head(runs) = "queued" THEN 1 ELSE 0) + CountQueued(Tail(runs))

(***************************************************************************)
(* Init: the package variables' zero values; main sets cacheTimeout.       *)
(***************************************************************************)
InitWith(timeouts, urls) ==
    /\ now = 0
    /\ cacheLock = FALSE
    /\ cachedJobs = 0
    /\ lastUpdateTime = ZeroTime
    /\ cacheTimeout \in timeouts
    /\ pc = [c \in Callers |-> "idle"]
    /\ repos = [c \in Callers |-> <<>>]
    /\ idx = [c \in Callers |-> 0]
    /\ totalQueuedJobs = [c \in Callers |-> 0]
    /\ queuedJobs = [c \in Callers |-> 0]
    /\ err = [c \in Callers |-> FALSE]
    /\ resp = NoResponse
    /\ logged = FALSE
    /\ calls = [c \in Callers |-> <<>>]
    /\ invoked = 0
    /\ failed = 0
    /\ lastAggregate = 0
    /\ blocked = {}
    /\ acquiredFresh = FALSE
    /\ cancelled = {}
    /\ githubURL \in urls
    /\ endpoint = <<>>
    /\ url = <<>>

\* the cache under every timeout, GITHUB_URL unset
Init == InitWith(Timeouts, {<<>>})

(***************************************************************************)
(* QueuedJobsHandler.                                                      *)
(***************************************************************************)
\* lines 136-143: a query arrives (the client has no other query under way)
\* and reads its configuration
Request(c) ==
    /\ pc[c] = "idle"
    /\ pc' = [pc EXCEPT ![c] = "lock"]
    /\ blocked' = blocked \ {c}
    /\ cancelled' = cancelled \ {c}
    /\ UNCHANGED << now, cacheLock, cacheVars, cacheTimeout, localVars, resp,
                    logged, calls, invoked, failed, lastAggregate, urlVars,
                    acquiredFresh >>

\* a Lock that does not wait for the mutex
LockNoWait(c) ==
    /\ pc[c] = "lock"
    /\ cacheLock' = TRUE
    /\ pc' = [pc EXCEPT ![c] = "check"]
    /\ acquiredFresh' = (/\ lastUpdateTime # ZeroTime
                         /\ now - lastUpdateTime < cacheTimeout)
    /\ UNCHANGED << now, cacheVars, cacheTimeout, localVars, resp, logged,
                    calls, invoked, failed, lastAggregate, urlVars, blocked,
                    cancelled >>

\* line 145: cacheLock.Lock() returns once the mutex is free
Lock(c) ==
    /\ pc[c] = "lock"
    /\ cacheLock = FALSE
    /\ cacheLock' = TRUE
    /\ pc' = [pc EXCEPT ![c] = "check"]
    /\ acquiredFresh' = (/\ lastUpdateTime # ZeroTime
                         /\ now - lastUpdateTime < cacheTimeout)
    /\ UNCHANGED << now, cacheVars, cacheTimeout, localVars, resp, logged,
                    calls, invoked, failed, lastAggregate, urlVars, blocked,
                    cancelled >>

\* a cache hit that renews lastUpdateTime
ReturnCachedRefreshing(c) ==
    /\ logged' = TRUE
    /\ resp' = OK(c, cachedJobs)
    /\ cacheLock' = FALSE
    /\ pc' = [pc EXCEPT ![c] = "idle"]
    /\ lastUpdateTime' = now
    /\ UNCHANGED << cachedJobs, invoked >>

\* a cache hit that returns without Unlock
ReturnCachedNoUnlock(c) ==
    /\ logged' = TRUE
    /\ resp' = OK(c, cachedJobs)
    /\ pc' = [pc EXCEPT ![c] = "idle"]
    /\ UNCHANGED << cacheLock, cacheVars, invoked >>

\* lines 149-157: the cache is still valid; answer from it, Unlock (deferred)
ReturnCached(c) ==
    /\ logged' = TRUE
    /\ resp' = OK(c, cachedJobs)
    /\ cacheLock' = FALSE
    /\ pc' = [pc EXCEPT ![c] = "idle"]
    /\ UNCHANGED << cacheVars, invoked >>

\* the mutex released before the crawl instead of after it
StartCountUnlocked(c) ==
    /\ pc' = [pc EXCEPT ![c] = "repos"]
    /\ invoked' = invoked + 1
    /\ cacheLock' = FALSE
    /\ UNCHANGED << cacheVars, resp, logged >>

\* line 160: call CountQueuedJobs, which starts with GetRepos (line 112)
StartCount(c) ==
    /\ pc' = [pc EXCEPT ![c] = "repos"]
    /\ invoked' = invoked + 1
    /\ UNCHANGED << cacheLock, cacheVars, resp, logged >>

\* the freshness test decided before Lock: a caller that had to wait for the
\* mutex calls CountQueuedJobs whatever was stored meanwhile
CheckCacheBeforeLock(c) ==
    /\ pc[c] = "check"
    /\ IF Fresh /\ c \notin blocked THEN ReturnCached(c) ELSE StartCount(c)
    /\ acquiredFresh' = FALSE
    /\ UNCHANGED << now, cacheTimeout, localVars, calls, failed, lastAggregate,
                    urlVars, blocked, cancelled >>

\* lines 148-160
CheckCache(c) ==
    /\ pc[c] = "check"
    /\ IF Fresh THEN ReturnCached(c) ELSE StartCount(c)
    /\ acquiredFresh' = FALSE
    /\ UNCHANGED << now, cacheTimeout, localVars, calls, failed, lastAggregate,
                    urlVars, blocked, cancelled >>

\* CountQueuedJobs returns (n, e) to line 160
ReturnCount(c, n, e) ==
    /\ queuedJobs' = [queuedJobs EXCEPT ![c] = n]
    /\ err' = [err EXCEPT ![c] = e]
    /\ pc' = [pc EXCEPT ![c] = "returned"]

\* GetRepos sent with the context of the inbound request: once the client
\* has gone away the call fails although the upstream answers
GetReposWithContext(c, rs) ==
    /\ pc[c] = "repos"
    /\ IF c \in cancelled
       THEN /\ ReturnCount(c, 0, TRUE)
            /\ UNCHANGED << calls, repos, idx, totalQueuedJobs >>
       ELSE /\ calls' = [calls EXCEPT ![c] = Append(@, ReposOK(rs))]
            /\ repos' = [repos EXCEPT ![c] = rs]
            /\ totalQueuedJobs' = [totalQueuedJobs EXCEPT ![c] = 0]
            /\ IF rs = <<>>
               THEN /\ ReturnCount(c, 0, FALSE)
                    /\ UNCHANGED idx
               ELSE /\ idx' = [idx EXCEPT ![c] = 1]
                    /\ pc' = [pc EXCEPT ![c] = "runs"]
                    /\ UNCHANGED << queuedJobs, err >>
    /\ UNCHANGED << now, cacheLock, cacheVars, cacheTimeout, resp, logged, invoked,
                    failed, lastAggregate, urlVars, obsVars >>

\* lines 112-117, GetRepos answered 200 with the list rs
GetReposOK(c, rs) ==
    /\ pc[c] = "repos"
    /\ calls' = [calls EXCEPT ![c] = Append(@, ReposOK(rs))]
    /\ repos' = [repos EXCEPT ![c] = rs]
    /\ totalQueuedJobs' = [totalQueuedJobs EXCEPT ![c] = 0]
    /\ IF rs = <<>>
       THEN /\ ReturnCount(c, 0, FALSE)
            /\ UNCHANGED idx
       ELSE /\ idx' = [idx EXCEPT ![c] = 1]
            /\ pc' = [pc EXCEPT ![c] = "runs"]
            /\ UNCHANGED << queuedJobs, err >>
    /\ UNCHANGED << now, cacheLock, cacheVars, cacheTimeout, resp, logged, invoked,
                    failed, lastAggregate, urlVars, obsVars >>

\* lines 112-115, GetRepos failed (transport, status or decode error)
GetReposError(c) ==
    /\ pc[c] = "repos"
    /\ failed < MaxFailures
    /\ calls' = [calls EXCEPT ![c] = Append(@, ReposError)]
    /\ ReturnCount(c, 0, TRUE)
    /\ UNCHANGED << now, cacheLock, cacheVars, cacheTimeout, repos, idx,
                    totalQueuedJobs, resp, logged, invoked, failed, lastAggregate, urlVars, obsVars >>

\* lines 119-132, GetWorkflowRuns answered 200 for the repository at idx
GetWorkflowRunsOK(c, runs) ==
    /\ pc[c] = "runs"
    /\ calls' = [calls EXCEPT ![c] = Append(@, RunsOK(repos[c][idx[c]], runs))]
    /\ totalQueuedJobs' =
           [totalQueuedJobs EXCEPT ![c] = @ + CountQueued(runs)]
    /\ IF idx[c] = Len(repos[c])
       THEN /\ ReturnCount(c, totalQueuedJobs'[c], FALSE)
            /\ UNCHANGED idx
       ELSE /\ idx' = [idx EXCEPT ![c] = @ + 1]
            /\ UNCHANGED << pc, queuedJobs, err >>
    /\ UNCHANGED << now, cacheLock, cacheVars, cacheTimeout, repos, resp,
                    logged, invoked, failed, lastAggregate, urlVars, obsVars >>

\* a failing repository skipped instead of aborting the crawl
GetWorkflowRunsSkip(c) ==
    /\ pc[c] = "runs"
    /\ failed < MaxFailures
    /\ calls' = [calls EXCEPT ![c] = Append(@, RunsError(repos[c][idx[c]]))]
    /\ IF idx[c] = Len(repos[c])
       THEN /\ ReturnCount(c, totalQueuedJobs[c], FALSE)
            /\ UNCHANGED idx
       ELSE /\ idx' = [idx EXCEPT ![c] = @ + 1]
            /\ UNCHANGED << pc, queuedJobs, err >>
    /\ UNCHANGED << now, cacheLock, cacheVars, cacheTimeout, repos,
                    totalQueuedJobs, resp, logged, invoked, failed,
                    lastAggregate, urlVars, obsVars >>

\* lines 120-123, GetWorkflowRuns failed for the repository at idx
GetWorkflowRunsError(c) ==
    /\ pc[c] = "runs"
    /\ failed < MaxFailures
    /\ calls' = [calls EXCEPT ![c] = Append(@, RunsError(repos[c][idx[c]]))]
    /\ ReturnCount(c, 0, TRUE)
    /\ UNCHANGED << now, cacheLock, cacheVars, cacheTimeout, repos, idx,
                    totalQueuedJobs, resp, logged, invoked, failed, lastAggregate, urlVars, obsVars >>

\* the queued runs the upstream reported in the answers of one crawl: the
\* positions (k, j) of a run with status "queued" in the k-th answer
QueuedReported(log) ==
    Cardinality(UNION { { <<k, j>> : j \in { i \in 1..Len(log[k].runs) :
                                                log[k].runs[i] = "queued" } } :
                        k \in { i \in 1..Len(log) :
                                   /\ log[i].op = "GetWorkflowRuns"
                                   /\ ~log[i].err } })

\* the cache stored before err is looked at
RespondErrorStoring(c) ==
    /\ cachedJobs' = queuedJobs[c]
    /\ lastUpdateTime' = now
    /\ resp' = InternalServerError(c)
    /\ failed' = failed + 1
    /\ UNCHANGED << invoked, lastAggregate >>

\* the stored count served when the crawl fails
RespondStale(c) ==
    /\ resp' = OK(c, cachedJobs)
    /\ failed' = failed + 1
    /\ UNCHANGED << cacheVars, invoked, lastAggregate >>

\* lines 161-164: http.Error with status 500; the cache is not touched
RespondError(c) ==
    /\ resp' = InternalServerError(c)
    /\ failed' = failed + 1
    /\ UNCHANGED << cacheVars, invoked, lastAggregate >>

\* the time stored without the count
StoreTimeOnly(c) ==
    /\ cachedJobs' = cachedJobs
    /\ lastUpdateTime' = now
    /\ resp' = OK(c, queuedJobs[c])
    /\ invoked' = 0
    /\ failed' = 0
    /\ lastAggregate' = QueuedReported(calls[c])

\* lines 166-175: store the count and the time, answer with the count
StoreAndRespond(c) ==
    /\ cachedJobs' = queuedJobs[c]
    /\ lastUpdateTime' = now
    /\ resp' = OK(c, queuedJobs[c])
    /\ invoked' = 0
    /\ failed' = 0
    /\ lastAggregate' = QueuedReported(calls[c])

\* CountQueuedJobs called again when it has failed, the mutex still held
HandleResultRetrying(c) ==
    /\ pc[c] = "returned"
    /\ IF err[c]
       THEN /\ pc' = [pc EXCEPT ![c] = "repos"]
            /\ invoked' = invoked + 1
            /\ failed' = failed + 1
            /\ UNCHANGED << cacheVars, resp, logged, cacheLock, lastAggregate,
                            blocked >>
       ELSE /\ StoreAndRespond(c)
            /\ logged' = FALSE
            /\ cacheLock' = FALSE
            /\ pc' = [pc EXCEPT ![c] = "idle"]
            /\ blocked' = { d \in Callers : pc[d] = "lock" }
    /\ repos' = [repos EXCEPT ![c] = <<>>]
    /\ idx' = [idx EXCEPT ![c] = 0]
    /\ totalQueuedJobs' = [totalQueuedJobs EXCEPT ![c] = 0]
    /\ queuedJobs' = [queuedJobs EXCEPT ![c] = 0]
    /\ err' = [err EXCEPT ![c] = FALSE]
    /\ calls' = [calls EXCEPT ![c] = <<>>]
    /\ UNCHANGED << now, cacheTimeout, urlVars, acquiredFresh, cancelled >>

\* lines 160-176: CountQueuedJobs has returned; answer, Unlock (deferred) and
\* return, which ends the life of the locals
HandleResult(c) ==
    /\ pc[c] = "returned"
    /\ IF err[c] THEN RespondError(c) ELSE StoreAndRespond(c)
    /\ logged' = FALSE
    /\ cacheLock' = FALSE
    /\ pc' = [pc EXCEPT ![c] = "idle"]
    /\ repos' = [repos EXCEPT ![c] = <<>>]
    /\ idx' = [idx EXCEPT ![c] = 0]
    /\ totalQueuedJobs' = [totalQueuedJobs EXCEPT ![c] = 0]
    /\ queuedJobs' = [queuedJobs EXCEPT ![c] = 0]
    /\ err' = [err EXCEPT ![c] = FALSE]
    /\ calls' = [calls EXCEPT ![c] = <<>>]
    /\ blocked' = { d \in Callers : pc[d] = "lock" }
    /\ UNCHANGED << now, cacheTimeout, urlVars, acquiredFresh, cancelled >>

\* a second passes
Tick ==
    /\ now < MaxTime
    /\ now' = now + 1
    /\ UNCHANGED << cacheLock, cacheVars, cacheTimeout, pc, localVars, resp,
                    logged, calls, invoked, failed, lastAggregate,
                    urlVars, obsVars >>

Next ==
    \/ \E c \in Callers : Request(c)
    \/ \E c \in Callers : Lock(c)
    \/ \E c \in Callers : CheckCache(c)
    \/ \E c \in Callers : \E rs \in RepoLists : GetReposOK(c, rs)
    \/ \E c \in Callers : GetReposError(c)
    \/ \E c \in Callers : \E runs \in RunLists : GetWorkflowRunsOK(c, runs)
    \/ \E c \in Callers : GetWorkflowRunsError(c)
    \/ \E c \in Callers : HandleResult(c)
    \/ Tick

Spec == Init /\ [][Next]_vars

(***************************************************************************)
(* Scheduling: a handler that can take its next step takes it, every       *)
(* upstream call is answered, and a caller waiting for the mutex gets it   *)
(* (sync.Mutex hands the mutex to a waiter that has been starved).  No     *)
(* query has to arrive and no time has to pass.                            *)
(***************************************************************************)
\* lines 111-133: the next upstream call of c's crawl is answered
CountQueuedJobsStep(c) ==
    \/ \E rs \in RepoLists : GetReposOK(c, rs)
    \/ GetReposError(c)
    \/ \E runs \in RunLists : GetWorkflowRunsOK(c, runs)
    \/ GetWorkflowRunsError(c)

Fairness ==
    \A c \in Callers :
        /\ SF_vars(Lock(c))
        /\ WF_vars(CheckCache(c))
        /\ WF_vars(CountQueuedJobsStep(c))
        /\ WF_vars(HandleResult(c))

FairSpec == Init /\ [][Next]_vars /\ Fairness

(***************************************************************************)
(* Clients that go away.                                                   *)
(***************************************************************************)
\* the client of c disconnects during c's crawl: net/http cancels
\* r.Context(), which the handler never reads and which the upstream
\* requests (http.NewRequest, lines 48 and 80) do not carry
Cancel(c) ==
    /\ pc[c] \in {"repos", "runs"}
    /\ c \notin cancelled
    /\ cancelled' = cancelled \cup {c}
    /\ UNCHANGED << now, cacheLock, cacheVars, cacheTimeout, pc, localVars,
                    resp, logged, calls, invoked, failed, lastAggregate,
                    urlVars, blocked, acquiredFresh >>

NextCancel ==
    \/ Next
    \/ \E c \in Callers : Cancel(c)

\* the service started with the longest cache timeout, so that what a crawl
\* stores stays fresh for later callers
InitCaching == InitWith({MaxTimeout}, {<<>>})

SpecCancel == InitCaching /\ [][NextCancel]_vars

(***************************************************************************)
(* The upstream requests: the URLs GetRepos and GetWorkflowRuns ask for.   *)
(***************************************************************************)
cacheState == << now, cacheLock, cacheVars, cacheTimeout, pc, localVars, resp,
                 logged, calls, invoked, failed, lastAggregate, obsVars >>

\* line 46, called from line 112 with the handler's githubURL
GetReposRequest(org) ==
    /\ endpoint' = ReposEndpoint(org)
    /\ url' = buildAPIURL(HandlerGithubURL, ReposEndpoint(org))
    /\ UNCHANGED << githubURL, cacheState >>

\* line 78, called from line 120 with the handler's githubURL
GetWorkflowRunsRequest(repo) ==
    /\ endpoint' = RunsEndpoint(repo)
    /\ url' = buildAPIURL(HandlerGithubURL, RunsEndpoint(repo))
    /\ UNCHANGED << githubURL, cacheState >>

\* every GITHUB_URL, the default timeout
InitURL == InitWith({DefaultTimeout}, BaseURLs)

NextURL ==
    \/ \E org \in Orgs : GetReposRequest(org)
    \/ \E repo \in FullNames : GetWorkflowRunsRequest(repo)

SpecURL == InitURL /\ [][NextURL]_vars

(***************************************************************************)
(* Vocabulary of the claims.                                               *)
(***************************************************************************)
\* c holds the mutex: it is between Lock's return and the deferred Unlock
InCritical(c) == pc[c] \in {"check", "repos", "runs", "returned"}

\* c's call of CountQueuedJobs has been made and the handler has not yet
\* acted on what it returned
InFlight(c) == pc[c] \in {"repos", "runs", "returned"}

\* one of the upstream answers of a crawl was an error
UpstreamFailed(log) == \E k \in 1..Len(log) : log[k].err

\* c's handler returns in this step
Returns(c) == pc[c] # "idle" /\ pc'[c] = "idle"

\* c's handler makes its freshness check (line 149) in this step
Checks(c) == pc[c] = "check" /\ pc'[c] # "check"

\* C1 (TTL freshness): once a recomputation has succeeded and stored
\* lastUpdateTime, every handler whose freshness check is made less than
\* cacheTimeout after lastUpdateTime answers 200 with the count that
\* recomputation produced, returns at once, and CountQueuedJobs is not called.
C1_TTLFreshness ==
    [][\A c \in Callers :
         (Checks(c) /\ lastUpdateTime # ZeroTime
                    /\ now - lastUpdateTime < cacheTimeout)
         => /\ resp' = OK(c, lastAggregate)
            /\ Returns(c)
            /\ invoked' = invoked
            /\ UNCHANGED cacheVars]_vars

\* C1 witness: a handler has just answered from the cache, with the positive
\* count of the crawl that stored it
C1_Witness ==
    /\ logged
    /\ lastUpdateTime # ZeroTime
    /\ resp.status = 200
    /\ resp.queued_jobs = lastAggregate
    /\ lastAggregate > 0

\* C2 as stated (exactly once per stale entry): between two stores of the
\* cache, CountQueuedJobs is called at most once, however many callers there
\* are.
C2_ExactlyOncePerStaleEntry == invoked <= 1

\* C2 as amended (single-flight): at most one call of CountQueuedJobs is in
\* flight at any time, and between two stores of the cache the calls made are
\* the ones that failed plus the one in flight: the entry is recomputed again
\* only after the previous recomputation failed, never once per blocked
\* caller at the same time.
C2_SingleFlight ==
    /\ Cardinality({ c \in Callers : InFlight(c) }) <= 1
    /\ invoked = failed + Cardinality({ c \in Callers : InFlight(c) })

\* C2 witness: after one failed recomputation a second one is in flight while
\* another caller is blocked on the mutex
C2_Witness ==
    /\ failed = 1
    /\ invoked = 2
    /\ \E c, d \in Callers : pc[c] = "runs" /\ pc[d] = "lock"

\* C3 (failure does not poison the cache): a handler whose crawl failed
\* returns leaving cachedJobs and lastUpdateTime as they were and the entry
\* stale; and as long as the latest recomputation failed, the next freshness
\* check finds the entry stale and calls CountQueuedJobs.
C3_FailureKeepsEntry ==
    [][/\ \A c \in Callers :
            (Returns(c) /\ UpstreamFailed(calls[c]))
            => /\ cachedJobs' = cachedJobs
               /\ lastUpdateTime' = lastUpdateTime
               /\ ~Fresh'
       /\ \A c \in Callers :
            (Checks(c) /\ failed > 0)
            => /\ pc'[c] = "repos"
               /\ invoked' = invoked + 1]_vars

\* C3 witness: a count was stored, a later recomputation failed, and the next
\* handler has called CountQueuedJobs again with the stored count intact
C3_Witness ==
    /\ failed = 1
    /\ invoked = 2
    /\ cachedJobs > 0
    /\ cachedJobs = lastAggregate
    /\ \E c \in Callers : pc[c] = "repos"

\* C4 (no stale value on error): a handler whose crawl failed answers 500
\* without a count; a handler answers 200 only when its freshness check found
\* the entry fresh or its own crawl ended without error.
C4_ErrorNotStale ==
    [][\A c \in Callers :
         Returns(c)
         => /\ UpstreamFailed(calls[c]) => resp' = InternalServerError(c)
            /\ resp'.status = 200
               => \/ pc[c] = "check" /\ Fresh
                  \/ pc[c] = "returned" /\ ~UpstreamFailed(calls[c])]_vars

\* C4 witness: with a positive count stored, a recomputation has failed and
\* the handler has answered 500
C4_Witness ==
    /\ resp.status = 500
    /\ failed = 1
    /\ invoked = 1
    /\ lastUpdateTime # ZeroTime
    /\ cachedJobs > 0

\* C5 (mutual exclusion): at most one caller is between Lock and Unlock, the
\* mutex is locked exactly then, and so at most one crawl is in flight and
\* nobody reads or writes the cache beside it.
C5_MutualExclusion ==
    /\ Cardinality({ c \in Callers : InCritical(c) }) <= 1
    /\ cacheLock <=> \E c \in Callers : InCritical(c)

\* C5 witness: one caller is crawling while another waits for the mutex
C5_Witness ==
    /\ cacheLock
    /\ \E c, d \in Callers : pc[c] = "runs" /\ idx[c] = 2 /\ pc[d] = "lock"

\* the repositories GetWorkflowRuns was called for, in call order
Asked(log) == [k \in 1..(Len(log) - 1) |-> log[k + 1].repo]

\* C6 (aggregation correctness): when GetRepos and every GetWorkflowRuns
\* succeed, CountQueuedJobs returns no error and the number of runs with
\* status "queued" over all the listed repositories, each asked once in
\* order; with no repository it returns 0.
C6_AggregationCorrect ==
    \A c \in Callers :
        (pc[c] = "returned" /\ ~UpstreamFailed(calls[c]))
        => /\ ~err[c]
           /\ Asked(calls[c]) = calls[c][1].repos
           /\ queuedJobs[c] = QueuedReported(calls[c])
           /\ calls[c][1].repos = <<>> => queuedJobs[c] = 0

\* C6 witness: repositories 1 with runs [queued, completed] and 2 with runs
\* [queued, queued] have been counted as 3
C6_Witness ==
    \E c \in Callers :
        /\ pc[c] = "returned"
        /\ calls[c] = << ReposOK(<<1, 2>>),
                         RunsOK(1, <<"queued", "completed">>),
                         RunsOK(2, <<"queued", "queued">>) >>
        /\ queuedJobs[c] = 3

\* C7 (abort on error): as soon as GetRepos or one GetWorkflowRuns fails,
\* CountQueuedJobs returns: the failed call is the last one made, the result
\* is an error, and the count returned with it is 0, not the sum so far.
C7_AbortOnError ==
    \A c \in Callers :
        UpstreamFailed(calls[c])
        => /\ pc[c] = "returned"
           /\ err[c]
           /\ queuedJobs[c] = 0
           /\ \A k \in 1..(Len(calls[c]) - 1) : ~calls[c][k].err

\* C7 witness: the runs of repository 2 could not be fetched after
\* repository 1 had contributed a queued run
C7_Witness ==
    \E c \in Callers :
        /\ pc[c] = "returned"
        /\ calls[c] = << ReposOK(<<1, 2>>),
                         RunsOK(1, <<"queued", "completed">>),
                         RunsError(2) >>

\* C8 (count reflects the latest successful aggregation): in every state
\* cachedJobs is the number of queued runs the upstream reported to the
\* latest crawl that ended without error, 0 before the first, and it is
\* never negative.
C8_CountIsLatestSuccess ==
    /\ cachedJobs = lastAggregate
    /\ cachedJobs >= 0

\* C8 witness: a crawl is about to store a count other than the positive one
\* stored before it
C8_Witness ==
    \E c \in Callers :
        /\ pc[c] = "returned"
        /\ ~err[c]
        /\ lastUpdateTime # ZeroTime
        /\ cachedJobs > 0
        /\ queuedJobs[c] # cachedJobs

\* the public GitHub API origin, "https://api.github.com"
PublicOrigin == Https \o ApiGithubCom

\* b starts with the public origin, character by character
StartsWithPublicOrigin(b) ==
    /\ Len(b) >= Len(PublicOrigin)
    /\ \A i \in 1..Len(PublicOrigin) : b[i] = PublicOrigin[i]

\* b without its last character when that is a slash
TrimTrailingSlash(b) ==
    IF b # <<>> /\ b[Len(b)] = "/" THEN [i \in 1..(Len(b) - 1) |-> b[i]] ELSE b

\* b without any of the slashes it ends with
RECURSIVE StripTrailingSlashes(_)
StripTrailingSlashes(b) ==
    IF b # <<>> /\ b[Len(b)] = "/"
    THEN StripTrailingSlashes([i \in 1..(Len(b) - 1) |-> b[i]])
    ELSE b

\* "https://api.github.com/orgs/acme/repos"
PublicExample ==
    << "h", "t", "t", "p", "s", ":", "/", "/", "a", "p", "i", ".",
       "g", "i", "t", "h", "u", "b", ".", "c", "o", "m", "/", "o",
       "r", "g", "s", "/", "a", "c", "m", "e", "/", "r", "e", "p",
       "o", "s" >>

\* "https://ghe.example.com/api/v3/orgs/acme/repos"
EnterpriseExample ==
    << "h", "t", "t", "p", "s", ":", "/", "/", "g", "h", "e", ".",
       "e", "x", "a", "m", "p", "l", "e", ".", "c", "o", "m", "/",
       "a", "p", "i", "/", "v", "3", "/", "o", "r", "g", "s", "/",
       "a", "c", "m", "e", "/", "r", "e", "p", "o", "s" >>

\* C9 (URL building): the URL requested for an endpoint is the base URL
\* without its trailing slash, then "/" when the base URL starts with the
\* public origin and "/api/v3/" otherwise, then the endpoint; the public and
\* the enterprise example of the specification come out as written there.
C9_URLBuilding ==
    url # <<>>
    => /\ url = TrimTrailingSlash(HandlerGithubURL)
                  \o (IF StartsWithPublicOrigin(HandlerGithubURL)
                      THEN <<"/">>
                      ELSE <<"/", "a", "p", "i", "/", "v", "3", "/">>)
                  \o endpoint
       /\ (HandlerGithubURL = PublicOrigin /\ endpoint = ReposEndpoint(Acme))
          => url = PublicExample
       /\ (githubURL = Https \o GheExampleCom /\ endpoint = ReposEndpoint(Acme))
          => url = EnterpriseExample

\* C9 witness: the enterprise example has been requested from a base URL
\* written with a trailing slash
C9_Witness ==
    /\ githubURL = Https \o GheExampleCom \o Slash
    /\ url = EnterpriseExample

\* C10 (trailing slashes are stripped): the URL requested under a base URL
\* that ends with slashes is the URL requested under that base URL without
\* them.
C10_TrailingSlashesStripped ==
    url # <<>>
    => url = buildAPIURL(StripTrailingSlashes(HandlerGithubURL), endpoint)

\* C11 (bounded age of served values): a handler answers from the cache
\* without calling CountQueuedJobs only when a count has been stored less
\* than cacheTimeout before its freshness check; when the stored count is
\* cacheTimeout old or older, or none has been stored, the check calls
\* CountQueuedJobs and writes no response.
C11_BoundedAge ==
    [][\A c \in Callers :
         Checks(c)
         => IF lastUpdateTime # ZeroTime /\ now - lastUpdateTime < cacheTimeout
            THEN Returns(c)
            ELSE /\ pc'[c] = "repos"
                 /\ invoked' = invoked + 1
                 /\ resp' = resp
                 /\ logged' = logged]_vars

\* C11 witness: a freshness check made exactly cacheTimeout after the store
\* has called CountQueuedJobs
C11_Witness ==
    /\ cacheTimeout > 0
    /\ lastUpdateTime # ZeroTime
    /\ now - lastUpdateTime = cacheTimeout
    /\ \E c \in Callers : pc[c] = "repos"

\* C12 (waiters reuse a successful recomputation), as stated: with
\* cacheTimeout > 0, a caller that was waiting for the mutex when another
\* caller's crawl was stored, and that acquires the mutex less than
\* cacheTimeout after the store, answers 200 with the count of that crawl and
\* does not call CountQueuedJobs.
C12_WaiterReusesByAcquisition ==
    [][\A c \in Callers :
         (/\ Checks(c)
          /\ c \in blocked
          /\ failed = 0
          /\ cacheTimeout > 0
          /\ acquiredFresh)
         => /\ Returns(c)
            /\ resp' = OK(c, lastAggregate)
            /\ invoked' = invoked]_vars

\* C12 as amended: the same for a caller whose freshness check, which is made
\* after Lock has returned, is made less than cacheTimeout after the store.
C12_WaiterReuses ==
    [][\A c \in Callers :
         (/\ Checks(c)
          /\ c \in blocked
          /\ failed = 0
          /\ cacheTimeout > 0
          /\ lastUpdateTime # ZeroTime
          /\ now - lastUpdateTime < cacheTimeout)
         => /\ Returns(c)
            /\ resp' = OK(c, lastAggregate)
            /\ invoked' = invoked]_vars

\* C12 witness: a caller that waited for the mutex during a crawl that
\* counted queued runs has been answered that count from the cache
C12_Witness ==
    /\ logged
    /\ resp.status = 200
    /\ resp.to \in blocked
    /\ pc[resp.to] = "idle"
    /\ failed = 0
    /\ invoked = 0
    /\ lastAggregate > 0
    /\ resp.queued_jobs = lastAggregate

\* C13 (the entry is written only by a successful aggregation): cachedJobs or
\* lastUpdateTime change only in the step in which a handler whose crawl
\* ended without error returns; a cache hit, Lock, Unlock and a failed crawl
\* leave both as they were.
C13_OnlySuccessWrites ==
    [][(cachedJobs' # cachedJobs \/ lastUpdateTime' # lastUpdateTime)
       => \E c \in Callers :
            /\ pc[c] = "returned"
            /\ ~UpstreamFailed(calls[c])
            /\ Returns(c)]_vars

\* C13 witness: a handler has answered from the cache and the entry, stored
\* at least a second ago, is still the one the crawl stored
C13_Witness ==
    /\ logged
    /\ resp.status = 200
    /\ lastUpdateTime # ZeroTime
    /\ now - lastUpdateTime >= 1
    /\ now - lastUpdateTime < cacheTimeout
    /\ cachedJobs > 0

\* C14 (the initial placeholder is never served): as long as no count has
\* been stored, every freshness check calls CountQueuedJobs, and every
\* handler that returns answers 500 or answers 200 with the count of its own
\* crawl that ended without error.
C14_PlaceholderNotServed ==
    [][lastUpdateTime = ZeroTime
       => \A c \in Callers :
            /\ Checks(c) => pc'[c] = "repos"
            /\ Returns(c)
               => \/ resp' = InternalServerError(c)
                  \/ /\ pc[c] = "returned"
                     /\ ~UpstreamFailed(calls[c])
                     /\ resp' = OK(c, QueuedReported(calls[c]))]_vars

\* C14 witness: before any store, and with a positive timeout, a crawl has
\* failed and the next handler has called CountQueuedJobs
C14_Witness ==
    /\ lastUpdateTime = ZeroTime
    /\ cacheTimeout > 0
    /\ resp.status = 500
    /\ \E c \in Callers : pc[c] = "runs"

\* C15 (no lock leak and progress): every return of the handler leaves the
\* mutex released, whether it answered from the cache, stored a count or
\* answered 500; the mutex is held only by a caller inside its handler, so a
\* caller waits only while another one is checking or crawling; and when
\* every upstream call is answered and the mutex is granted fairly, every
\* query is eventually answered.
C15_NoLeakAndProgress ==
    /\ [][\A c \in Callers : Returns(c) => ~cacheLock']_vars
    /\ [](cacheLock => \E c \in Callers : InCritical(c))
    /\ \A c \in Callers : (pc[c] # "idle") ~> (pc[c] = "idle")

\* C15 witness: a crawl has failed and its handler has returned with the
\* mutex released while another caller is waiting for it
C15_Witness ==
    /\ resp.status = 500
    /\ ~cacheLock
    /\ pc[resp.to] = "idle"
    /\ \E c \in Callers : pc[c] = "lock"

\* C16 (no retry): CountQueuedJobs is called only by a freshness check, once
\* per query: a handler whose crawl has returned answers and returns, it
\* never goes back to the crawl; a failed crawl is answered 500 to the
\* caller that ran it and moves no other caller; a 500 is written only by the
\* handler whose own crawl failed; and a caller that was waiting when the
\* crawl failed makes its own freshness check next, finds the entry stale
\* and calls CountQueuedJobs itself.
C16_NoRetry ==
    [][\A c \in Callers :
         /\ (pc'[c] = "repos" /\ pc[c] # "repos") => Checks(c)
         /\ pc[c] = "runs" => pc'[c] \in {"runs", "returned"}
         /\ pc[c] = "returned" => pc'[c] \in {"returned", "idle"}
         /\ (Returns(c) /\ UpstreamFailed(calls[c]))
            => /\ resp' = InternalServerError(c)
               /\ \A d \in Callers \ {c} : pc'[d] = pc[d]
         /\ (Returns(c) /\ resp'.status = 500)
            => /\ pc[c] = "returned"
               /\ UpstreamFailed(calls[c])
               /\ resp'.to = c
         /\ (c \in blocked /\ failed > 0 /\ pc[c] = "lock")
            => pc'[c] \in {"lock", "check"}
         /\ (c \in blocked /\ failed > 0 /\ Checks(c))
            => /\ pc'[c] = "repos"
               /\ invoked' = invoked + 1
               /\ resp' = resp]_vars

\* C16 witness: a crawl has failed and was answered 500 to its caller, and a
\* caller that was waiting at the time is running its own crawl
C16_Witness ==
    /\ failed = 1
    /\ resp.status = 500
    /\ pc[resp.to] = "idle"
    /\ \E d \in blocked : d # resp.to /\ pc[d] = "repos"

\* C17 (no cancellation): the client's going away during a crawl changes
\* nothing but the client; the crawl of a caller whose client has gone goes
\* on, it fails only when an upstream call fails, and when it ends without
\* error its handler stores the count the upstream reported and the time,
\* answers with that count and releases the mutex.
C17_NoCancellation ==
    [][\A c \in Callers :
         /\ (c \notin cancelled /\ c \in cancelled')
            => UNCHANGED << now, cacheLock, cacheVars, cacheTimeout, pc,
                            localVars, resp, calls, invoked, failed >>
         /\ (c \in cancelled /\ InFlight(c))
            => /\ pc'[c] \in {"repos", "runs", "returned", "idle"}
               /\ pc'[c] = "idle" => pc[c] = "returned"
               /\ (pc'[c] = "returned" /\ err'[c])
                  => UpstreamFailed(calls'[c])
               /\ (Returns(c) /\ ~UpstreamFailed(calls[c]))
                  => /\ cachedJobs' = QueuedReported(calls[c])
                     /\ lastUpdateTime' = now
                     /\ resp' = OK(c, QueuedReported(calls[c]))
                     /\ ~cacheLock'
               /\ Returns(c) => ~cacheLock']_vars

\* C17 witness: the crawl of a caller whose client went away during it has
\* ended without error; its count is stored, fresh, and the mutex is free
C17_Witness ==
    \E c \in cancelled :
        /\ pc[c] = "idle"
        /\ resp = OK(c, cachedJobs)
        /\ ~logged
        /\ cachedJobs > 0
        /\ lastUpdateTime = now
        /\ cacheTimeout > 0
        /\ ~cacheLock

\* the number of places at which part occurs in s
Occurrences(s, part) ==
    Cardinality({ i \in 1..(Len(s) - Len(part) + 1) :
                    SubSeq(s, i, i + Len(part) - 1) = part })

\* C18 (one /api/v3 prefix): under a base URL that does not start with the
\* public origin, the URL requested contains "/api/v3" exactly once.
C18_SingleApiV3 ==
    (url # <<>> /\ ~StartsWithPublicOrigin(HandlerGithubURL))
    => Occurrences(url, ApiV3) = 1

====
